---- MODULE Spec2Model ----
(***************************************************************************)
(* A model of lynchman.py: the note classification of Song, the            *)
(* aggregation of SongCollection, the four report computations             *)
(* (summary text, density grid, time series, cut directions), save_pdf     *)
(* and the two halves of main (song discovery, report generation).         *)
(*                                                                         *)
(* Numbers the code computes with true division are kept as exact          *)
(* fractions <<numerator, denominator>>; a raised Python exception is a    *)
(* result of kind "error" that carries the exception's class name; the     *)
(* NaN numpy yields for 0/0 is a cell with nan = TRUE.                     *)
(***************************************************************************)
EXTENDS Integers, Sequences, FiniteSets, TLC

(***************************************************************************)
(* Bounds of the model.                                                    *)
(***************************************************************************)
MaxNotes == 3
MaxType == 3
MaxTime == 1
MaxTimedNotes == 2
MaxLineIndex == 4
MaxLineLayer == 2
MaxPlacedNotes == 1
MaxCutNotes == 2
MaxCut == 9
MaxSongs == 2
MaxSongNotes == 2
MaxMetaValue == 2
MaxLimit == 2
MaxIdentDirs == 2
MaxNameDirs == 2
MaxItems == 2

(***************************************************************************)
(* Program constants and vocabulary.                                       *)
(***************************************************************************)
SONG_DIFFICULTIES == <<"Easy", "Normal", "Hard", "Expert", "ExpertPlus">>

SONG_EXTENSION == ".json"

NoteType == {"NONE", "ALL", "NORMAL", "LEFT", "RIGHT", "BOMB"}

Views == {"ALL", "NORMAL", "LEFT", "RIGHT", "BOMB"}

MetaKeys == {"_version", "_beatsPerMinute", "_beatsPerBar", "_noteJumpSpeed",
             "_shuffle", "_shufflePeriod"}

DocKeys == MetaKeys \cup {"_events", "_notes"}

(***************************************************************************)
(* Results of calls: a value, or a raised exception.                       *)
(***************************************************************************)
Ok(v) == [kind |-> "value", error |-> "", val |-> v]

Err(e) == [kind |-> "error", error |-> e, val |-> 0]

NoResult == [kind |-> "none", error |-> "", val |-> 0]

Note(ty, t, li, ll, cd) ==
    [type |-> ty, time |-> t, lineIndex |-> li, lineLayer |-> ll, cutDirection |-> cd]

Abs(x) == IF x < 0 THEN -x ELSE x

RECURSIVE SumSeq(_)
SumSeq(s) == IF s = <<>> THEN 0 ELSE Head(s) + SumSeq(Tail(s))

\* Flatten with the later lists first.
RECURSIVE FlattenReversed(_)
FlattenReversed(ss) == IF ss = <<>> THEN <<>> ELSE FlattenReversed(Tail(ss)) \o Head(ss)

RECURSIVE Flatten(_)
Flatten(ss) == IF ss = <<>> THEN <<>> ELSE Head(ss) \o Flatten(Tail(ss))

Min(S) == CHOOSE x \in S : \A y \in S : x <= y

RECURSIVE Sorted(_)
Sorted(S) == IF S = {} THEN <<>> ELSE <<Min(S)>> \o Sorted(S \ {Min(S)})

SeqsUpTo(S, n) == UNION {[1..k -> S] : k \in 0..n}

(***************************************************************************)
(* class Song                                                              *)
(***************************************************************************)

\* IsIncluded with the bomb code mistaken (2 for 3).
IsIncludedBombCode(note_type, type_value) ==
    IF note_type = "BOMB" /\ type_value = 2 THEN TRUE
    ELSE /\ type_value = 0 \/ type_value = 1
         /\ \/ note_type = "NORMAL"
            \/ note_type = "LEFT" /\ type_value = 0
            \/ note_type = "RIGHT" /\ type_value = 1

\* The body of the loop of Song._get_notes: is a note of type code
\* type_value included in the view note_type?
IsIncluded(note_type, type_value) ==
    LET in_normal ==
            IF type_value = 0 \/ type_value = 1
            THEN IF note_type = "NORMAL" THEN TRUE
                 ELSE IF note_type = "LEFT" /\ type_value = 0 THEN TRUE
                 ELSE IF note_type = "RIGHT" /\ type_value = 1 THEN TRUE
                 ELSE FALSE
            ELSE FALSE
    IN  IF note_type = "BOMB" /\ type_value = 3 THEN TRUE ELSE in_normal

RECURSIVE FilterNotes(_, _)
FilterNotes(notes, note_type) ==
    IF notes = <<>> THEN <<>>
    ELSE LET n == Head(notes)
             rest == FilterNotes(Tail(notes), note_type)
         IN  IF IsIncluded(note_type, n.type) THEN <<n>> \o rest ELSE rest

\* Song._get_notes
Song_get_notes_private(notes, note_type) ==
    IF note_type = "ALL" THEN notes ELSE FilterNotes(notes, note_type)

Unconstructed ==
    [state |-> "unconstructed", data |-> <<>>, notes |-> <<>>,
     notes_normal |-> <<>>, notes_left |-> <<>>, notes_right |-> <<>>,
     notes_bomb |-> <<>>, ident |-> <<>>, name |-> <<>>, difficulty |-> ""]

\* Song.__init__ on a parsed document d (a function from the keys present).
\* A missing "_events" or "_notes" raises KeyError and no Song exists.
SongInit(ident, name, difficulty, d) ==
    IF "_events" \notin DOMAIN d THEN Err("KeyError")
    ELSE IF "_notes" \notin DOMAIN d THEN Err("KeyError")
    ELSE Ok([state |-> "constructed",
             data |-> d,
             notes |-> d["_notes"],
             notes_normal |-> Song_get_notes_private(d["_notes"], "NORMAL"),
             notes_left |-> Song_get_notes_private(d["_notes"], "LEFT"),
             notes_right |-> Song_get_notes_private(d["_notes"], "RIGHT"),
             notes_bomb |-> Song_get_notes_private(d["_notes"], "BOMB"),
             ident |-> ident, name |-> name, difficulty |-> difficulty])

\* Song.get_notes: the cached view; any other note_type falls off the
\* if/elif chain and returns None.
Song_get_notes(s, note_type) ==
    IF note_type = "ALL" THEN Ok(s.notes)
    ELSE IF note_type = "NORMAL" THEN Ok(s.notes_normal)
    ELSE IF note_type = "LEFT" THEN Ok(s.notes_left)
    ELSE IF note_type = "RIGHT" THEN Ok(s.notes_right)
    ELSE IF note_type = "BOMB" THEN Ok(s.notes_bomb)
    ELSE NoResult

\* Song.get_version .. Song.get_shuffle_period: self._data[key].
Song_get(s, key) ==
    IF key \in DOMAIN s.data THEN Ok(s.data[key]) ELSE Err("KeyError")

(***************************************************************************)
(* class SongCollection                                                    *)
(***************************************************************************)

\* SongCollection.get_notes: the members' views, flattened in member order.
\* A view that is None cannot be iterated (TypeError).
Collection_get_notes(ss, note_type) ==
    LET notes_by_songs == [i \in 1..Len(ss) |-> Song_get_notes(ss[i], note_type)]
    IN  IF \E i \in 1..Len(ss) : notes_by_songs[i].kind = "none"
        THEN Err("TypeError")
        ELSE Ok(Flatten([i \in 1..Len(ss) |-> notes_by_songs[i].val]))

\* SongCollection.get_beats_per_minute .. get_shuffle_period:
\* sum([s.get_x() for s in songs]) / number_of_songs.
Collection_get(ss, key) ==
    LET vals == [i \in 1..Len(ss) |-> Song_get(ss[i], key)]
    IN  IF \E i \in 1..Len(ss) : vals[i].kind = "error"
        THEN Err("KeyError")
        ELSE IF Len(ss) = 0 THEN Err("ZeroDivisionError")
        ELSE Ok(<<SumSeq([i \in 1..Len(ss) |-> vals[i].val]), Len(ss)>>)

(***************************************************************************)
(* What the report functions use of their argument, which is a Song or a   *)
(* SongCollection: the five metadata getters and get_notes.                *)
(***************************************************************************)
SongSubject(s) ==
    [meta |-> [k \in MetaKeys |-> Song_get(s, k)],
     notes |-> [v \in Views |-> Song_get_notes(s, v).val]]

CollectionSubject(ss) ==
    [meta |-> [k \in MetaKeys |-> Collection_get(ss, k)],
     notes |-> [v \in Views |-> Collection_get_notes(ss, v).val]]

(***************************************************************************)
(* Report computations                                                     *)
(***************************************************************************)

\* The order in which get_basic_data_as_text calls the metadata getters.
BasicDataKeys ==
    <<"_beatsPerMinute", "_beatsPerBar", "_noteJumpSpeed", "_shuffle", "_shufflePeriod">>

\* The absolute gaps between consecutive notes, in the order given.
Diffs(notes) ==
    [i \in 1..(IF Len(notes) = 0 THEN 0 ELSE Len(notes) - 1) |->
        Abs(notes[i + 1].time - notes[i].time)]

\* get_basic_data_as_text with an average of 0 for a song without gaps.
BasicDataZeroAverage(subject) ==
    LET left_note_count == Len(subject.notes["LEFT"])
        right_note_count == Len(subject.notes["RIGHT"])
        total_normal_notes == left_note_count + right_note_count
        diffs == Diffs(subject.notes["NORMAL"])
    IN  IF total_normal_notes = 0 THEN Err("ZeroDivisionError")
        ELSE Ok([meta |-> [i \in 1..Len(BasicDataKeys) |->
                              subject.meta[BasicDataKeys[i]].val],
                 total_normal_notes |-> total_normal_notes,
                 total_bombs |-> Len(subject.notes["BOMB"]),
                 left |-> left_note_count,
                 right |-> right_note_count,
                 leaning |-> <<left_note_count - right_note_count, total_normal_notes>>,
                 average_difference |->
                    IF Len(diffs) = 0 THEN <<0, 1>> ELSE <<SumSeq(diffs), Len(diffs)>>])

\* get_basic_data_as_text: the values of the lines of the text, or the
\* exception raised on the way.
get_basic_data_as_text(subject) ==
    LET failing == {i \in 1..Len(BasicDataKeys) :
                        subject.meta[BasicDataKeys[i]].kind = "error"}
        left_note_count == Len(subject.notes["LEFT"])
        right_note_count == Len(subject.notes["RIGHT"])
        total_normal_notes == left_note_count + right_note_count
        diffs == Diffs(subject.notes["NORMAL"])
    IN  IF failing # {} THEN Err(subject.meta[BasicDataKeys[Min(failing)]].error)
        ELSE IF total_normal_notes = 0 THEN Err("ZeroDivisionError")
        ELSE IF Len(diffs) = 0 THEN Err("ZeroDivisionError")
        ELSE Ok([meta |-> [i \in 1..Len(BasicDataKeys) |->
                              subject.meta[BasicDataKeys[i]].val],
                 total_normal_notes |-> total_normal_notes,
                 total_bombs |-> Len(subject.notes["BOMB"]),
                 left |-> left_note_count,
                 right |-> right_note_count,
                 leaning |-> <<left_note_count - right_note_count, total_normal_notes>>,
                 average_difference |-> <<SumSeq(diffs), Len(diffs)>>])

\* collections.Counter of the grid positions of the notes.
PositionCount(notes, li, ll) ==
    Cardinality({i \in 1..Len(notes) :
                    notes[i].lineIndex = li /\ notes[i].lineLayer = ll})

\* numpy's array / len(notes): elementwise true division, where 0 / 0 is
\* NaN (a warning, no exception).
NumpyDivide(count, total) ==
    IF total = 0 THEN [nan |-> TRUE, num |-> 0, den |-> 0]
    ELSE [nan |-> FALSE, num |-> count, den |-> total]

\* build_note_heatmap: the 3 x 4 array handed to the renderer; row r is
\* layer 3 - r (L2, L1, L0), column c is line index c - 1.
build_note_heatmap(notes) ==
    Ok([r \in 1..3 |-> [c \in 1..4 |->
            NumpyDivide(PositionCount(notes, c - 1, 3 - r), Len(notes))]])

\* build_histogram: the series of times handed to the renderer.
build_histogram(notes) == Ok([i \in 1..Len(notes) |-> notes[i].time])

\* CutKeys without the loop that sets the nine counts to 0.
CutKeysSeen(notes) == {notes[i].cutDirection : i \in 1..Len(notes)}

\* The keys of cut_direction_count: 0..8, and every cut direction seen.
CutKeys(notes) == (0..8) \cup {notes[i].cutDirection : i \in 1..Len(notes)}

CutCount(notes, k) == Cardinality({i \in 1..Len(notes) : notes[i].cutDirection = k})

\* build_cut_directions_drawing with percentages of 0 when nothing was counted.
CutDirectionsZeroGuard(notes) ==
    LET keys == Sorted((0..8) \cup {notes[i].cutDirection : i \in 1..Len(notes)})
        count(k) == Cardinality({i \in 1..Len(notes) : notes[i].cutDirection = k})
        total_cuts == Len(notes)
        entry(k) == IF total_cuts = 0 THEN <<0, 1>> ELSE <<count(k), total_cuts>>
    IN  Ok([cut_percentages |-> [j \in 1..Len(keys) |-> entry(keys[j])],
            drawn |-> [i \in 1..9 |-> entry(keys[i])]])

\* build_cut_directions_drawing: cut_percentages, one entry per key of the
\* counter in ascending key order, of which the first nine are drawn
\* (cut_percentages[i] for each of the nine shifts: IndexError if there
\* are fewer); the plain division raises ZeroDivisionError when no note
\* was counted.
build_cut_directions_drawing(notes) ==
    LET keys == Sorted(CutKeys(notes))
        total_cuts == SumSeq([j \in 1..Len(keys) |-> CutCount(notes, keys[j])])
    IN  IF total_cuts = 0 THEN Err("ZeroDivisionError")
        ELSE IF Len(keys) < 9 THEN Err("IndexError")
        ELSE Ok([cut_percentages |->
                    [j \in 1..Len(keys) |-> <<CutCount(notes, keys[j]), total_cuts>>],
                 drawn |-> [i \in 1..9 |-> <<CutCount(notes, keys[i]), total_cuts>>]])

\* save_pdf: the pages saved before the first exception, and that exception.
\* The renderer (matplotlib) is outside the model: it is taken to draw
\* whatever array or series it is handed.
save_pdf(subject) ==
    LET text == get_basic_data_as_text(subject)
        normal == build_note_heatmap(subject.notes["NORMAL"])
        bombs == build_note_heatmap(subject.notes["BOMB"])
        hist == build_histogram(subject.notes["ALL"])
        cuts == build_cut_directions_drawing(subject.notes["NORMAL"])
    IN  IF text.kind = "error"
        THEN [pages |-> <<>>, error |-> text.error]
        ELSE IF cuts.kind = "error"
        THEN [pages |-> <<"text", "normal", "bombs", "histogram">>, error |-> cuts.error]
        ELSE [pages |-> <<"text", "normal", "bombs", "histogram", "cuts">>, error |-> ""]

(***************************************************************************)
(* State.  doc, song, out: one source document, the Song built from it     *)
(* and the result of the latest call on it.  songs, collOut: the member    *)
(* list of a SongCollection and the result of the latest call on it.       *)
(* tree, args, cursor, pc, reports, raised, manifest: the directory tree   *)
(* and command line main runs on, its position, the report files written   *)
(* and the exception that ended it.                                        *)
(***************************************************************************)
VARIABLES doc, song, out, songs, collOut, tree, args, cursor, pc, reports,
          raised, manifest

vars == <<doc, song, out, songs, collOut, tree, args, cursor, pc, reports,
          raised, manifest>>

songVars == <<doc, song, out>>

collVars == <<songs, collOut>>

mainVars == <<tree, args, cursor, pc, reports, raised, manifest>>

\* A parsed source document with the keys in keys.
MakeDoc(keys, v, notes) ==
    [k \in keys |-> IF k = "_notes" THEN notes
                    ELSE IF k = "_events" THEN <<>>
                    ELSE IF k = "_version" THEN "1.5.0"
                    ELSE v]

NoCall == [op |-> "", arg |-> "", res |-> NoResult]

NoArgs ==
    [limit |-> [given |-> FALSE, value |-> 0], difficulty |-> "None",
     filter |-> [given |-> FALSE, text |-> <<>>], operation |-> "cumulative"]

SongIdle == doc = MakeDoc(DocKeys, 1, <<>>) /\ song = Unconstructed /\ out = NoCall

CollIdle == songs = <<>> /\ collOut = NoCall

MainIdle ==
    /\ tree = [name |-> <<>>, kind |-> "dir", children |-> <<>>]
    /\ args = NoArgs /\ cursor = 1 /\ pc = "idle"
    /\ reports = <<>> /\ raised = "" /\ manifest = <<>>

(***************************************************************************)
(* Calls on one Song.                                                      *)
(***************************************************************************)

\* Song(ident, name, difficulty, json_filepath) on the document doc.
NewSong ==
    /\ song.state = "unconstructed"
    /\ LET r == SongInit(<<"1", "-", "a">>, <<"a">>, "Easy", doc)
       IN  /\ song' = IF r.kind = "value" THEN r.val
                      ELSE [Unconstructed EXCEPT !.state = "failed"]
           /\ out' = [op |-> "Song", arg |-> "", res |-> IF r.kind = "value"
                                                           THEN Ok(0) ELSE r]
    /\ UNCHANGED <<doc, collVars, mainVars>>

SongCall(op, arg, res) ==
    /\ song.state = "constructed"
    /\ out' = [op |-> op, arg |-> arg, res |-> res]
    /\ UNCHANGED <<doc, song, collVars, mainVars>>

SongGetNotes == \E t \in NoteType : SongCall("get_notes", t, Song_get_notes(song, t))

SongGetVersion == SongCall("get", "_version", Song_get(song, "_version"))

SongGetBeatsPerMinute ==
    SongCall("get", "_beatsPerMinute", Song_get(song, "_beatsPerMinute"))

SongGetBeatsPerBar == SongCall("get", "_beatsPerBar", Song_get(song, "_beatsPerBar"))

SongGetNoteJumpSpeed ==
    SongCall("get", "_noteJumpSpeed", Song_get(song, "_noteJumpSpeed"))

SongGetShuffle == SongCall("get", "_shuffle", Song_get(song, "_shuffle"))

SongGetShufflePeriod ==
    SongCall("get", "_shufflePeriod", Song_get(song, "_shufflePeriod"))

SongBasicData ==
    SongCall("get_basic_data_as_text", "", get_basic_data_as_text(SongSubject(song)))

SongHeatmap ==
    \E v \in Views :
        SongCall("build_note_heatmap", v, build_note_heatmap(Song_get_notes(song, v).val))

SongHistogram ==
    \E v \in Views :
        SongCall("build_histogram", v, build_histogram(Song_get_notes(song, v).val))

SongCutDirections ==
    \E v \in Views :
        SongCall("build_cut_directions_drawing", v,
                 build_cut_directions_drawing(Song_get_notes(song, v).val))

SongSavePdf == SongCall("save_pdf", "", Ok(save_pdf(SongSubject(song))))

\* The calls that read the notes of a Song.
NextSong ==
    \/ NewSong
    \/ SongGetNotes
    \/ SongBasicData
    \/ SongHeatmap
    \/ SongHistogram
    \/ SongCutDirections
    \/ SongSavePdf

\* Documents with every key.  Their notes differ in type code, or are
\* left and right notes that differ in time, or are left notes that differ
\* in grid position (positions outside the grid included).
TypedNotes == {Note(ty, 0, 0, 0, 0) : ty \in 0..MaxType}

TimedNotes == {Note(ty, t, 0, 0, 0) : ty \in {0, 1}, t \in 0..MaxTime}

PlacedNotes ==
    {Note(ty, 0, li, ll, 0) : ty \in {0}, li \in 0..MaxLineIndex, ll \in 0..MaxLineLayer}

SongNoteLists ==
    SeqsUpTo(TypedNotes, MaxNotes) \cup SeqsUpTo(TimedNotes, MaxTimedNotes)
        \cup SeqsUpTo(PlacedNotes, MaxPlacedNotes)

InitSong ==
    /\ doc \in {MakeDoc(DocKeys, 1, ns) : ns \in SongNoteLists}
    /\ song = Unconstructed /\ out = NoCall
    /\ CollIdle /\ MainIdle

SpecSong == InitSong /\ [][NextSong]_vars

\* Documents with every key, whose notes are left-hand notes that differ in
\* cut direction, codes outside 0..8 included.
CutNotes == {Note(0, 0, 0, 0, cd) : cd \in (-1)..MaxCut}

InitCut ==
    /\ doc \in {MakeDoc(DocKeys, 1, ns) : ns \in SeqsUpTo(CutNotes, MaxCutNotes)}
    /\ song = Unconstructed /\ out = NoCall
    /\ CollIdle /\ MainIdle

\* The calls that the cut directions of a Song pass through.
NextCut ==
    \/ NewSong
    \/ SongGetNotes
    \/ SongCutDirections
    \/ SongSavePdf

SpecCut == InitCut /\ [][NextCut]_vars

\* Documents with any subset of the keys.
InitKeys ==
    /\ doc \in {MakeDoc(keys, v, ns) : keys \in SUBSET DocKeys, v \in 1..MaxMetaValue,
                                       ns \in SeqsUpTo({Note(0, 0, 0, 0, 0)}, 1)}
    /\ song = Unconstructed /\ out = NoCall
    /\ CollIdle /\ MainIdle

\* The calls that read the metadata of a Song.
NextKeys ==
    \/ NewSong
    \/ SongGetVersion
    \/ SongGetBeatsPerMinute
    \/ SongGetBeatsPerBar
    \/ SongGetNoteJumpSpeed
    \/ SongGetShuffle
    \/ SongGetShufflePeriod
    \/ SongBasicData

SpecKeys == InitKeys /\ [][NextKeys]_vars

(***************************************************************************)
(* Properties of one Song.                                                 *)
(***************************************************************************)
IsLeft(n) == n.type = 0

IsRight(n) == n.type = 1

IsBomb(n) == n.type = 3

IsNormal(n) == n.type = 0 \/ n.type = 1

Occurs(n, s) == \E i \in 1..Len(s) : s[i] = n

ExpectedView(notes, v) ==
    CASE v = "ALL" -> notes
      [] v = "NORMAL" -> SelectSeq(notes, IsNormal)
      [] v = "LEFT" -> SelectSeq(notes, IsLeft)
      [] v = "RIGHT" -> SelectSeq(notes, IsRight)
      [] v = "BOMB" -> SelectSeq(notes, IsBomb)

\* C1: construction never fails on a document that has its keys, whatever
\* the type codes of its notes; the cached views are the notes of type 0
\* (LEFT), 1 (RIGHT), 3 (BOMB) and 0 or 1 (NORMAL), each in file order and
\* once per note; |NORMAL| = |LEFT| + |RIGHT|; NORMAL and BOMB share no
\* note; a note of any other type is in none of the four views but is in
\* ALL; and get_notes returns these views.
ClassificationViews ==
    /\ song.state # "failed"
    /\ song.state = "constructed" =>
        /\ song.notes = doc["_notes"]
        /\ song.notes_left = SelectSeq(song.notes, IsLeft)
        /\ song.notes_right = SelectSeq(song.notes, IsRight)
        /\ song.notes_bomb = SelectSeq(song.notes, IsBomb)
        /\ song.notes_normal = SelectSeq(song.notes, IsNormal)
        /\ Len(song.notes_normal) = Len(song.notes_left) + Len(song.notes_right)
        /\ \A i \in 1..Len(song.notes_normal) :
                ~Occurs(song.notes_normal[i], song.notes_bomb)
        /\ \A i \in 1..Len(song.notes) :
                song.notes[i].type \notin {0, 1, 3} =>
                    /\ ~Occurs(song.notes[i], song.notes_normal)
                    /\ ~Occurs(song.notes[i], song.notes_left)
                    /\ ~Occurs(song.notes[i], song.notes_right)
                    /\ ~Occurs(song.notes[i], song.notes_bomb)
    /\ (out.op = "get_notes" /\ out.arg \in Views) =>
            out.res = Ok(ExpectedView(doc["_notes"], out.arg))

\* A song holding a normal note, a bomb and a note of another type code,
\* whose NORMAL view has been requested.
ClassificationViewsWitness ==
    /\ song.state = "constructed"
    /\ \E i, j, k \in 1..Len(song.notes) :
            /\ song.notes[i].type = 1
            /\ song.notes[j].type = 3
            /\ song.notes[k].type \notin {0, 1, 3}
    /\ out.op = "get_notes" /\ out.arg = "NORMAL"

\* C5: get_basic_data_as_text on a Song raises (ZeroDivisionError) and
\* yields no text when the song has no left or right note, and when its
\* NORMAL view has fewer than two notes.
BasicDataFailsWithoutGaps ==
    (/\ out.op = "get_basic_data_as_text"
     /\ \/ Len(song.notes_left) + Len(song.notes_right) = 0
        \/ Len(song.notes_normal) < 2)
        => /\ out.res.kind = "error"
           /\ out.res.error = "ZeroDivisionError"

\* The text was requested of a song with exactly one normal note (and some
\* other note beside it).
BasicDataFailsWithoutGapsWitness ==
    /\ out.op = "get_basic_data_as_text"
    /\ Len(song.notes_normal) = 1
    /\ Len(song.notes) > 1
    /\ out.res.kind = "error"

AllZeroGrid(g) == \A r \in 1..3 : \A c \in 1..4 : ~g[r][c].nan /\ g[r][c].num = 0

\* C6: the density grid of an empty view is the all-zero 3 x 4 grid,
\* computed without error and without NaN.
EmptyGridIsZero ==
    (/\ out.op = "build_note_heatmap"
     /\ Song_get_notes(song, out.arg).val = <<>>)
        => /\ out.res.kind = "value"
           /\ AllZeroGrid(out.res.val)

\* C7: the cut directions of an empty view raise (ZeroDivisionError) and
\* return no distribution, and save_pdf saves no cut-direction page of a
\* song whose NORMAL view is empty.
EmptyCutsFail ==
    /\ (/\ out.op = "build_cut_directions_drawing"
        /\ Song_get_notes(song, out.arg).val = <<>>)
            => /\ out.res.kind = "error"
               /\ out.res.error = "ZeroDivisionError"
    /\ (out.op = "save_pdf" /\ song.notes_normal = <<>>)
            => /\ ~Occurs("cuts", out.res.val.pages)
               /\ out.res.val.error # ""

\* The cut directions were requested of the empty NORMAL view of a song
\* that has notes.
EmptyCutsFailWitness ==
    /\ out.op = "build_cut_directions_drawing"
    /\ out.arg = "NORMAL"
    /\ song.notes # <<>>
    /\ song.notes_normal = <<>>
    /\ out.res.kind = "error"

DirectionCount(notes, d) ==
    Cardinality({i \in 1..Len(notes) : notes[i].cutDirection = d})

OutOfRangeCuts(notes) ==
    {notes[i].cutDirection : i \in 1..Len(notes)} \ (0..8)

MalformedDocumentRejected ==
    /\ (song.state # "unconstructed" /\ ~((MetaKeys \cup {"_notes"}) \subseteq DOMAIN doc))
            => song.state = "failed"
    /\ out.op = "get" => out.res.kind = "value"

(***************************************************************************)
(* Calls on a SongCollection of the songs in songs.  The collection keeps  *)
(* the list it was given and its length; nothing changes either.           *)
(***************************************************************************)
CollectionCall(op, arg, res) ==
    /\ collOut' = [op |-> op, arg |-> arg, res |-> res]
    /\ UNCHANGED <<songs, songVars, mainVars>>

CollectionGetNumberOfSongs == CollectionCall("get_number_of_songs", "", Ok(Len(songs)))

CollectionGetNotes ==
    \E t \in NoteType : CollectionCall("get_notes", t, Collection_get_notes(songs, t))

CollectionGetBeatsPerMinute ==
    CollectionCall("get", "_beatsPerMinute", Collection_get(songs, "_beatsPerMinute"))

CollectionGetBeatsPerBar ==
    CollectionCall("get", "_beatsPerBar", Collection_get(songs, "_beatsPerBar"))

CollectionGetNoteJumpSpeed ==
    CollectionCall("get", "_noteJumpSpeed", Collection_get(songs, "_noteJumpSpeed"))

CollectionGetShuffle == CollectionCall("get", "_shuffle", Collection_get(songs, "_shuffle"))

CollectionGetShufflePeriod ==
    CollectionCall("get", "_shufflePeriod", Collection_get(songs, "_shufflePeriod"))

NextCollection ==
    \/ CollectionGetNumberOfSongs
    \/ CollectionGetNotes
    \/ CollectionGetBeatsPerMinute
    \/ CollectionGetBeatsPerBar
    \/ CollectionGetNoteJumpSpeed
    \/ CollectionGetShuffle
    \/ CollectionGetShufflePeriod

\* Member songs: built from documents with every key, whose notes are a
\* late left note and an early bomb, or which differ in metadata.
CollectionNotes == {Note(0, 1, 0, 0, 1), Note(3, 0, 0, 0, 0)}

CollectionDocs ==
    {MakeDoc(DocKeys, 1, ns) : ns \in SeqsUpTo(CollectionNotes, MaxSongNotes)}
        \cup {MakeDoc(DocKeys, v, <<>>) : v \in 1..MaxMetaValue}

CollectionSongs == {SongInit(<<"1", "-", "a">>, <<"a">>, "Easy", d).val : d \in CollectionDocs}

InitCollection ==
    /\ songs \in SeqsUpTo(CollectionSongs, MaxSongs)
    /\ collOut = NoCall
    /\ SongIdle /\ MainIdle

SpecCollection == InitCollection /\ [][NextCollection]_vars

(***************************************************************************)
(* main, second half: the reports of the songs found.  argparse admits     *)
(* only the operations cumulative and single.  A report is the file        *)
(* PdfPages leaves behind, with the pages saved before any exception.      *)
(***************************************************************************)
Descriptor(s) == <<s.ident, s.name, s.difficulty>>

ReportCumulative ==
    /\ pc = "report"
    /\ args.operation = "cumulative"
    /\ LET r == save_pdf(CollectionSubject(songs))
       IN  /\ reports' = Append(reports, [subject |-> 0, pages |-> r.pages])
           /\ raised' = r.error
           /\ IF r.error # ""
              THEN pc' = "crashed" /\ manifest' = manifest
              ELSE /\ pc' = "done"
                   /\ manifest' = [i \in 1..Len(songs) |-> Descriptor(songs[i])]
    /\ UNCHANGED <<songs, collOut, songVars, tree, args, cursor>>

ReportSingle ==
    /\ pc = "report"
    /\ args.operation = "single"
    /\ cursor <= Len(songs)
    /\ LET r == save_pdf(SongSubject(songs[cursor]))
       IN  /\ reports' = Append(reports, [subject |-> cursor, pages |-> r.pages])
           /\ raised' = r.error
           /\ IF r.error # ""
              THEN pc' = "crashed" /\ cursor' = cursor
              ELSE pc' = "report" /\ cursor' = cursor + 1
    /\ UNCHANGED <<songs, collOut, songVars, tree, args, manifest>>

ReportSingleEnd ==
    /\ pc = "report"
    /\ args.operation = "single"
    /\ cursor > Len(songs)
    /\ pc' = "done"
    /\ UNCHANGED <<songs, collOut, songVars, tree, args, cursor, reports, raised, manifest>>

NextReport ==
    \/ ReportCumulative
    \/ ReportSingle
    \/ ReportSingleEnd

InitReport ==
    /\ songs \in SeqsUpTo(CollectionSongs, MaxSongs)
    /\ collOut = NoCall
    /\ SongIdle
    /\ tree = [name |-> <<>>, kind |-> "dir", children |-> <<>>]
    /\ args \in {[NoArgs EXCEPT !.operation = o] : o \in {"cumulative", "single"}}
    /\ cursor = 1 /\ pc = "report"
    /\ reports = <<>> /\ raised = "" /\ manifest = <<>>

SpecReport == InitReport /\ [][NextReport]_vars

(***************************************************************************)
(* Properties of SongCollection and of the reports.                        *)
(***************************************************************************)
MemberView(s, v) == Song_get_notes(s, v).val

Offset(ss, v, i) == SumSeq([j \in 1..(i - 1) |-> Len(MemberView(ss[j], v))])

\* C8: the view of a collection is the members' views of that category one
\* after the other in member order, each in its own order and not sorted by
\* time, its length the sum of theirs; and no call changes a member song.
ConcatenatedViews ==
    /\ [](\A v \in Views :
            (collOut.op = "get_notes" /\ collOut.arg = v) =>
                /\ collOut.res.kind = "value"
                /\ Len(collOut.res.val) = Offset(songs, v, Len(songs) + 1)
                /\ \A i \in 1..Len(songs) :
                      \A k \in 1..Len(MemberView(songs[i], v)) :
                          collOut.res.val[Offset(songs, v, i) + k]
                              = MemberView(songs[i], v)[k])
    /\ [][songs' = songs]_vars

\* The ALL view of two songs, the first ending later than the second starts.
ConcatenatedViewsWitness ==
    /\ collOut.op = "get_notes" /\ collOut.arg = "ALL"
    /\ Len(songs) = 2
    /\ songs[1].notes # <<>> /\ songs[2].notes # <<>>
    /\ songs[1].notes[Len(songs[1].notes)].time > songs[2].notes[1].time
    /\ collOut.res.kind = "value"

\* C2: a mean of an empty collection fails with EmptyCollectionError: no
\* value, and no other error.
EmptyCollectionMeanError ==
    (collOut.op = "get" /\ Len(songs) = 0)
        => /\ collOut.res.kind = "error"
           /\ collOut.res.error = "EmptyCollectionError"

Attempted(i) == \E r \in 1..Len(reports) : reports[r].subject = i

Produced(i) ==
    \E r \in 1..Len(reports) :
        reports[r].subject = i /\ Occurs("cuts", reports[r].pages)

\* C4: when one report per song is asked for and main has ended, a report
\* was attempted for every song, and was produced for every song whose
\* report does not fail.
BatchSurvivesFailure ==
    (args.operation = "single" /\ pc \in {"done", "crashed"})
        => \A i \in 1..Len(songs) :
              /\ Attempted(i)
              /\ save_pdf(SongSubject(songs[i])).error = "" => Produced(i)

(***************************************************************************)
(* main, first half: the discovery of the song files under args.path.      *)
(* tree is the directory args.path: a node has a name, a kind and, for a   *)
(* directory, its entries in the order os.listdir gives them.  Directory   *)
(* names are sequences of characters; a file name is the pair              *)
(* <<name, ext>> that os.path.splitext makes of it.  A path is the         *)
(* sequence of names below args.path.                                      *)
(***************************************************************************)
File(name) == [name |-> name, kind |-> "file", children |-> <<>>]

Dir(name, children) == [name |-> name, kind |-> "dir", children |-> children]

Missing == [name |-> <<>>, kind |-> "missing", children |-> <<>>]

RECURSIVE Resolve(_, _)
Resolve(node, path) ==
    IF path = <<>> THEN node
    ELSE LET hits == {i \in 1..Len(node.children) : node.children[i].name = Head(path)}
         IN  IF node.kind # "dir" \/ hits = {} THEN Missing
             ELSE Resolve(node.children[Min(hits)], Tail(path))

isdir(path) == Resolve(tree, path).kind = "dir"

isfile(path) == Resolve(tree, path).kind = "file"

listdir(path) ==
    LET node == Resolve(tree, path)
    IN  [i \in 1..Len(node.children) |-> node.children[i].name]

\* Python's truth value of args.limit and of args.filter: None, 0 and the
\* empty string are false.
LimitSet == args.limit.given /\ args.limit.value # 0

FilterSet == args.filter.given /\ args.filter.text # <<>>

\* sub in text, for strings.
IsSubstring(sub, text) ==
    \E i \in 0..(Len(text) - Len(sub)) : SubSeq(text, i + 1, i + Len(sub)) = sub

InList(x, list) == \E i \in 1..Len(list) : list[i] = x

\* The document every song file of the tree holds.
SongFileDocument == MakeDoc(DocKeys, 1, <<Note(0, 0, 0, 0, 1), Note(1, 1, 3, 2, 0)>>)

\* The loop over the items of one name directory: the songs it appends.
RECURSIVE ScanItems(_, _, _, _)
ScanItems(root, items, song_ident, song_name) ==
    IF items = <<>> THEN <<>>
    ELSE LET item == Head(items)
             filepath == Append(root, item)
             name == item[1]
             ext == item[2]
             is_song ==
                 IF isfile(filepath) /\ ext = SONG_EXTENSION
                 THEN IF args.difficulty # "None"
                      THEN name = args.difficulty
                      ELSE InList(name, SONG_DIFFICULTIES)
                 ELSE FALSE
             rest == ScanItems(root, Tail(items), song_ident, song_name)
         IN  IF is_song
             THEN <<SongInit(song_ident, song_name, name, SongFileDocument).val>> \o rest
             ELSE rest

\* The loop over the entries of one identity directory.  root is assigned
\* in the loop, so each entry is joined to the path of the one before it.
RECURSIVE ScanNameDirs(_, _, _)
ScanNameDirs(root, name_dirs, song_ident) ==
    IF name_dirs = <<>> THEN <<>>
    ELSE LET name_dir == Head(name_dirs)
             root2 == Append(root, name_dir)
             song_name == name_dir
             rest == ScanNameDirs(root2, Tail(name_dirs), song_ident)
         IN  IF FilterSet /\ ~IsSubstring(args.filter.text, song_name) THEN rest
             ELSE IF isdir(root2)
             THEN ScanItems(root2, listdir(root2), song_ident, song_name) \o rest
             ELSE rest

LimitReached == LimitSet /\ Len(songs) >= args.limit.value

ident_dir == listdir(<<>>)[cursor]

Discovering == pc = "discover" /\ cursor <= Len(listdir(<<>>))

DiscoverLimitReached ==
    /\ Discovering
    /\ LimitReached
    /\ pc' = "report"
    /\ cursor' = 1
    /\ UNCHANGED <<songs, collOut, songVars, tree, args, reports, raised, manifest>>

DiscoverNoDash ==
    /\ Discovering
    /\ ~LimitReached
    /\ ~InList("-", ident_dir)
    /\ cursor' = cursor + 1
    /\ UNCHANGED <<songs, collOut, songVars, tree, args, pc, reports, raised, manifest>>

DiscoverNotADirectory ==
    /\ Discovering
    /\ ~LimitReached
    /\ InList("-", ident_dir)
    /\ ~isdir(<<ident_dir>>)
    /\ cursor' = cursor + 1
    /\ UNCHANGED <<songs, collOut, songVars, tree, args, pc, reports, raised, manifest>>

DiscoverIdentDir ==
    /\ Discovering
    /\ ~LimitReached
    /\ InList("-", ident_dir)
    /\ isdir(<<ident_dir>>)
    /\ songs' = songs \o ScanNameDirs(<<ident_dir>>, listdir(<<ident_dir>>), ident_dir)
    /\ cursor' = cursor + 1
    /\ UNCHANGED <<collOut, songVars, tree, args, pc, reports, raised, manifest>>

DiscoverEnd ==
    /\ pc = "discover"
    /\ cursor > Len(listdir(<<>>))
    /\ pc' = "report"
    /\ cursor' = 1
    /\ UNCHANGED <<songs, collOut, songVars, tree, args, reports, raised, manifest>>

NextDiscover ==
    \/ DiscoverLimitReached
    \/ DiscoverNoDash
    \/ DiscoverNotADirectory
    \/ DiscoverIdentDir
    \/ DiscoverEnd

\* The trees: up to MaxIdentDirs entries of args.path, up to MaxNameDirs
\* entries of an identity directory, up to MaxItems items of a name
\* directory, each listing in the order of the candidates.
IncreasingSeqs(n, max) ==
    {s \in SeqsUpTo(1..n, max) : \A i \in 1..(Len(s) - 1) : s[i] < s[i + 1]}

ItemCandidates ==
    <<File(<<"Easy", ".json">>), File(<<"Expert", ".json">>), File(<<"info", ".json">>)>>

ItemListings ==
    {[i \in 1..Len(s) |-> ItemCandidates[s[i]]] :
        s \in IncreasingSeqs(Len(ItemCandidates), MaxItems)}

NameDirNames == <<<<"a">>, <<"b">>>>

NameEntries(n) == {File(n)} \cup {Dir(n, items) : items \in ItemListings}

NameListings ==
    UNION {{l \in [1..Len(s) -> UNION {NameEntries(NameDirNames[i]) : i \in 1..Len(NameDirNames)}] :
                \A i \in 1..Len(s) : l[i].name = NameDirNames[s[i]]} :
           s \in IncreasingSeqs(Len(NameDirNames), MaxNameDirs)}

IdentNames == <<<<"1", "-", "a">>, <<"2", "-", "b">>, <<"x">>>>

IdentEntries(n) ==
    IF InList("-", n)
    THEN {File(n)} \cup {Dir(n, l) : l \in NameListings}
    ELSE {Dir(n, <<>>)}

RootListings ==
    UNION {{l \in [1..Len(s) -> UNION {IdentEntries(IdentNames[i]) : i \in 1..Len(IdentNames)}] :
                \A i \in 1..Len(s) : l[i].name = IdentNames[s[i]]} :
           s \in IncreasingSeqs(Len(IdentNames), MaxIdentDirs)}

Limits ==
    {[given |-> FALSE, value |-> 0]} \cup {[given |-> TRUE, value |-> v] : v \in (-1)..MaxLimit}

Filters == {[given |-> FALSE, text |-> <<>>], [given |-> TRUE, text |-> <<"a">>]}

InitDiscover ==
    /\ tree \in {Dir(<<>>, l) : l \in RootListings}
    /\ args \in {[limit |-> l, difficulty |-> d, filter |-> f, operation |-> "cumulative"] :
                    l \in Limits, d \in {"None", "Easy"}, f \in Filters}
    /\ songs = <<>> /\ collOut = NoCall
    /\ SongIdle
    /\ cursor = 1 /\ pc = "discover"
    /\ reports = <<>> /\ raised = "" /\ manifest = <<>>

SpecDiscover == InitDiscover /\ [][NextDiscover]_vars

Range(list) == {list[i] : i \in 1..Len(list)}

\* The song files of the layout <ident>-.../<name>/<Difficulty>.json that
\* pass the name filter and the difficulty filter.
RecognizedIn(i, n) ==
    {<<i.name, n.name, f.name[1]>> :
        f \in {g \in Range(n.children) :
                /\ g.kind = "file"
                /\ g.name[2] = ".json"
                /\ IF args.difficulty # "None"
                   THEN g.name[1] = args.difficulty
                   ELSE g.name[1] \in Range(SONG_DIFFICULTIES)}}

RecognizedSongFiles ==
    UNION {UNION {RecognizedIn(i, n) :
                    n \in {m \in Range(i.children) :
                            /\ m.kind = "dir"
                            /\ FilterSet => IsSubstring(args.filter.text, m.name)}} :
           i \in {j \in Range(tree.children) : j.kind = "dir" /\ "-" \in Range(j.name)}}

\* C10: when discovery has ended, a positive --limit L has let at most L
\* songs be collected, and --limit -1 has let every recognized song file be
\* collected.
LimitBoundsSongs ==
    pc = "report" =>
        /\ (args.limit.given /\ args.limit.value > 0) => Len(songs) <= args.limit.value
        /\ (args.limit.given /\ args.limit.value = -1) =>
                RecognizedSongFiles \subseteq {Descriptor(songs[k]) : k \in 1..Len(songs)}

====
